---------------------------- MODULE Spec2Model ----------------------------
(***************************************************************************)
(* TelegramManager: the membership synchronizer of TelegramGroupManager    *)
(* (t_addusers.py) and the account diagnostics of TelegramConnector        *)
(* (t_connector.py), over an external Telegram client whose answers are    *)
(* nondeterministic.                                                       *)
(*                                                                         *)
(* Spec     : one TelegramGroupManager object, any number of runs of       *)
(*            add_users_from_group, one step per await.                    *)
(* SpecConn : one TelegramConnector object: connect, the four diagnostics, *)
(*            get_group_type, disconnect.                                  *)
(* Both classes hold the same field _cached_group_types and the same       *)
(* method get_group_type; the variables cache, gt_call and gt_ret are the  *)
(* object's under either specification.                                    *)
(***************************************************************************)
EXTENDS Integers, Sequences, FiniteSets

\* ------------------------------------------------------------------ bounds
\* user identifiers are 1..NumUsers
NumUsers == 3
\* a FloodWaitError carries 1..MaxFloodWait seconds
MaxFloodWait == 2
\* get_dialogs answers with at most MaxDialogs dialogs
MaxDialogs == 2

\* random.uniform(60, 180)
PaceMin == 60
PaceMax == 180

Users == 1..NumUsers
\* user_id None / attribute self.id never assigned
NoUser == 0
\* group identifiers handed to the object
Groups == {"g1", "g2"}
NoGroup == "no_group"
\* the script runs add_users_from_group on one source and one target group
SourceGroup == "g1"
TargetGroup == "g2"

\* ------------------------------------------------- the external client
\* What client.get_entity answers: it raises (cls "error"), or returns an
\* entity. Only a Channel has the attributes megagroup and broadcast; a
\* User has no title.
LookupFails == [cls |-> "error", megagroup |-> FALSE, broadcast |-> FALSE]
Entities ==
    { [cls |-> "User", megagroup |-> FALSE, broadcast |-> FALSE],
      [cls |-> "Chat", megagroup |-> FALSE, broadcast |-> FALSE],
      [cls |-> "Channel", megagroup |-> TRUE, broadcast |-> FALSE],
      [cls |-> "Channel", megagroup |-> FALSE, broadcast |-> TRUE],
      [cls |-> "Channel", megagroup |-> FALSE, broadcast |-> FALSE] }
EntityAnswers == Entities \cup {LookupFails}

has_flags(entity) == entity.cls = "Channel"
has_title(entity) == entity.cls \in {"Chat", "Channel"}

\* What client.get_participants answers: it raises, or returns the members.
ParticipantAnswers ==
    [failed : {FALSE}, members : SUBSET Users]
        \cup {[failed |-> TRUE, members |-> {}]}

\* What a membership-add request answers.
RequestAnswers ==
    [kind : {"ok", "UserPrivacyRestrictedError", "PeerFloodError", "Exception"},
     seconds : {0}]
        \cup [kind : {"FloodWaitError"}, seconds : 1..MaxFloodWait]
NoAnswer == [kind |-> "none", seconds |-> 0]

\* the interval random.uniform draws from, by its two ends
PaceSeconds == {PaceMin, PaceMax}

\* ---------------------------------------------------------- group types
CachedTypes == {"supergroup", "channel", "basic_group"}
Fallback == "chat"
NoEntry == "no_entry"
NoType == "none"

VARIABLES
    \* _cached_group_types: group id -> type, NoEntry when the key is absent
    cache,
    \* the get_group_type call made by the last step, if any
    gt_call,
    \* per group id, what the latest get_group_type call that returned, returned
    gt_ret,
    \* ---- TelegramGroupManager.add_users_from_group: position and locals
    pc,
    target_group_id,
    users_to_skip,
    source_members,
    target_member_ids,
    users_to_add,
    target_group_type,
    i,
    outcome,
    peer_flood_seen,
    slept,
    events,
    \* ---- TelegramConnector
    cpc,
    creds,
    id,
    dialogs,
    last

objvars == <<cache, gt_call, gt_ret>>
runvars == <<pc, target_group_id, users_to_skip, source_members,
             target_member_ids, users_to_add, target_group_type, i, outcome,
             peer_flood_seen, slept, events>>
connvars == <<cpc, creds, id, dialogs, last>>
vars == <<objvars, runvars, connvars>>

\* ------------------------------------------------------ get_group_type
NoCall == [group |-> NoGroup, failed |-> FALSE, raised |-> FALSE,
           ret |-> NoType, lookup |-> FALSE]

\* the try block: entity.megagroup raises AttributeError unless the entity
\* is a Channel, and the except clause answers "chat"
classify(entity) ==
    IF ~has_flags(entity) THEN Fallback
    ELSE IF entity.megagroup THEN "supergroup"
    ELSE IF entity.broadcast THEN "channel"
    ELSE "basic_group"

\* mutant: the classification is never stored
get_group_type_nostore(c, group_id, verbose, ans) ==
    IF c[group_id] # NoEntry
    THEN [raised |-> FALSE, ret |-> c[group_id], cache |-> c, lookup |-> FALSE]
    ELSE IF ans = LookupFails
    THEN [raised |-> TRUE, ret |-> NoType, cache |-> c, lookup |-> TRUE]
    ELSE IF verbose /\ ~has_title(ans)
         THEN [raised |-> TRUE, ret |-> NoType, cache |-> c, lookup |-> TRUE]
         ELSE [raised |-> FALSE, ret |-> classify(ans), cache |-> c,
               lookup |-> TRUE]

\* mutant: no early return on a cache hit
get_group_type_nohit(c, group_id, verbose, ans) ==
    IF ans = LookupFails
    THEN [raised |-> TRUE, ret |-> NoType, cache |-> c, lookup |-> TRUE]
    ELSE LET group_type == classify(ans)
             c2 == IF group_type # Fallback
                   THEN [c EXCEPT ![group_id] = group_type] ELSE c
         IN IF verbose /\ ~has_title(ans)
            THEN [raised |-> TRUE, ret |-> NoType, cache |-> c2, lookup |-> TRUE]
            ELSE [raised |-> FALSE, ret |-> group_type, cache |-> c2,
                  lookup |-> TRUE]

\* get_group_type(group_id, verbose) on cache c when get_entity answers ans:
\* whether it raised, what it returned, the cache after it, and whether
\* get_entity was called.
get_group_type(c, group_id, verbose, ans) ==
    IF c[group_id] # NoEntry
    THEN [raised |-> FALSE, ret |-> c[group_id], cache |-> c, lookup |-> FALSE]
    ELSE IF ans = LookupFails
    THEN \* get_entity is awaited outside the try block
         [raised |-> TRUE, ret |-> NoType, cache |-> c, lookup |-> TRUE]
    ELSE LET group_type == classify(ans)
             c2 == IF group_type # Fallback
                   THEN [c EXCEPT ![group_id] = group_type] ELSE c
         IN IF verbose /\ ~has_title(ans)
            THEN \* entity.title in the log line, outside the try block
                 [raised |-> TRUE, ret |-> NoType, cache |-> c2, lookup |-> TRUE]
            ELSE [raised |-> FALSE, ret |-> group_type, cache |-> c2,
                  lookup |-> TRUE]

\* the record of a call and the latest returned value, after result r
call_record(group_id, ans, r) ==
    [group |-> group_id, failed |-> (r.lookup /\ ans = LookupFails),
     raised |-> r.raised, ret |-> r.ret, lookup |-> r.lookup]
ret_after(group_id, r) ==
    IF r.raised THEN gt_ret ELSE [gt_ret EXCEPT ![group_id] = r.ret]

\* ------------------------------------------- add_users_from_group
Perms(S) ==
    {f \in [1..Cardinality(S) -> S] :
        \A a, b \in 1..Cardinality(S) : a # b => f[a] # f[b]}

\* random.shuffle: any order of the list
shuffle(S) == Perms(S)

\* mutant: the skip list is left out of skip_ids
users_to_add_noskip(source, target_ids, skip) ==
    {member \in source : member \notin target_ids}

\* the members of the source that are not in skip_ids
users_to_add_of(source, target_ids, skip) ==
    LET skip_ids == target_ids \cup skip
    IN {member \in source : member \notin skip_ids}

AddKinds == {"AddChatUserRequest", "InviteToChannelRequest"}
\* the request the loop issues for the type of the target group
request_kind(group_type) ==
    IF group_type \in {"basic_group", "chat"}
    THEN "AddChatUserRequest" ELSE "InviteToChannelRequest"

Event(kind, user) == [kind |-> kind, user |-> user]

\* mutant: PeerFloodError is logged and the loop goes on
except_pc_nobreak(ans) ==
    IF ans.kind = "FloodWaitError" THEN "flood_sleep" ELSE "pace"

\* mutant: FloodWaitError stops the loop
except_pc_floodstop(ans) ==
    IF ans.kind \in {"PeerFloodError", "FloodWaitError"} THEN "done" ELSE "pace"

\* where the except clauses leave the loop after a request answered ans
except_pc(ans) ==
    IF ans.kind = "PeerFloodError" THEN "done"
    ELSE IF ans.kind = "FloodWaitError" THEN "flood_sleep"
    ELSE "pace"

\* lines 92-95: a new run; get_participants(source_group_id)
FetchSource(source_group_id, target, skip, ans) ==
    /\ pc = "idle"
    /\ target_group_id' = target
    /\ users_to_skip' = skip
    /\ source_members' = ans.members
    /\ target_member_ids' = {}
    /\ users_to_add' = <<>>
    /\ target_group_type' = NoType
    /\ i' = 0
    /\ outcome' = NoAnswer
    /\ peer_flood_seen' = FALSE
    /\ slept' = 0
    /\ events' = <<>>
    /\ pc' = IF ans.failed THEN "raised" ELSE "fetch_target"
    /\ gt_call' = NoCall
    /\ UNCHANGED <<cache, gt_ret, connvars>>

\* lines 97-102: get_participants(target_group_id)
FetchTarget(ans) ==
    /\ pc = "fetch_target"
    /\ target_member_ids' = ans.members
    /\ pc' = IF ans.failed THEN "raised" ELSE "get_entity"
    /\ gt_call' = NoCall
    /\ UNCHANGED <<cache, gt_ret, target_group_id, users_to_skip,
                   source_members, users_to_add, target_group_type, i,
                   outcome, peer_flood_seen, slept, events, connvars>>

\* lines 103-120: get_entity(target_group_id) and its title, the filter,
\* the shuffle
ComputeUsers(ans) ==
    /\ pc = "get_entity"
    /\ IF ans = LookupFails \/ ~has_title(ans)
       THEN /\ pc' = "raised"
            /\ UNCHANGED users_to_add
       ELSE /\ pc' = "get_type"
            /\ users_to_add' \in
                 shuffle(users_to_add_of(source_members, target_member_ids,
                                         users_to_skip))
    /\ gt_call' = NoCall
    /\ UNCHANGED <<cache, gt_ret, target_group_id, users_to_skip,
                   source_members, target_member_ids, target_group_type, i,
                   outcome, peer_flood_seen, slept, events, connvars>>

\* line 123: get_group_type(target_group_id, verbose=False), then the loop
\* header of line 126
GetTargetType(ans) ==
    /\ pc = "get_type"
    /\ LET r == get_group_type(cache, target_group_id, FALSE, ans)
       IN /\ cache' = r.cache
          /\ gt_call' = call_record(target_group_id, ans, r)
          /\ gt_ret' = ret_after(target_group_id, r)
          /\ IF r.raised
             THEN /\ pc' = "raised"
                  /\ UNCHANGED <<target_group_type, i>>
             ELSE /\ target_group_type' = r.ret
                  /\ i' = 1
                  /\ pc' = IF users_to_add = <<>> THEN "done" ELSE "request"
    /\ UNCHANGED <<target_group_id, users_to_skip, source_members,
                   target_member_ids, users_to_add, outcome, peer_flood_seen,
                   slept, events, connvars>>

\* lines 127-144: the request for users_to_add[i] and the except clause
\* that its answer selects
Request(ans) ==
    /\ pc = "request"
    /\ events' = Append(events, Event(request_kind(target_group_type),
                                      users_to_add[i]))
    /\ outcome' = ans
    /\ peer_flood_seen' = (peer_flood_seen \/ ans.kind = "PeerFloodError")
    /\ pc' = except_pc(ans)
    /\ gt_call' = NoCall
    /\ UNCHANGED <<cache, gt_ret, target_group_id, users_to_skip,
                   source_members, target_member_ids, users_to_add,
                   target_group_type, i, slept, connvars>>

\* line 142: asyncio.sleep(e.seconds)
FloodSleep ==
    /\ pc = "flood_sleep"
    /\ events' = Append(events, Event("flood_sleep", NoUser))
    /\ slept' = outcome.seconds
    /\ pc' = "pace"
    /\ gt_call' = NoCall
    /\ UNCHANGED <<cache, gt_ret, target_group_id, users_to_skip,
                   source_members, target_member_ids, users_to_add,
                   target_group_type, i, outcome, peer_flood_seen, connvars>>

\* mutant: the loop goes to the next user without the sleep
PaceSleep_nosleep(d) ==
    /\ pc = "pace"
    /\ i' = i + 1
    /\ pc' = IF i + 1 > Len(users_to_add) THEN "done" ELSE "request"
    /\ gt_call' = NoCall
    /\ UNCHANGED <<cache, gt_ret, target_group_id, users_to_skip,
                   source_members, target_member_ids, users_to_add,
                   target_group_type, outcome, peer_flood_seen, slept, events,
                   connvars>>

\* lines 146-147, then the next iteration or line 148
PaceSleep(d) ==
    /\ pc = "pace"
    /\ events' = Append(events, Event("pace", NoUser))
    /\ slept' = d
    /\ i' = i + 1
    /\ pc' = IF i + 1 > Len(users_to_add) THEN "done" ELSE "request"
    /\ gt_call' = NoCall
    /\ UNCHANGED <<cache, gt_ret, target_group_id, users_to_skip,
                   source_members, target_member_ids, users_to_add,
                   target_group_type, outcome, peer_flood_seen, connvars>>

\* run: run_until_complete returns or raises, and the locals of the run
\* are gone
RunReturns ==
    /\ pc \in {"done", "raised"}
    /\ pc' = "idle"
    /\ target_group_id' = NoGroup
    /\ users_to_skip' = {}
    /\ source_members' = {}
    /\ target_member_ids' = {}
    /\ users_to_add' = <<>>
    /\ target_group_type' = NoType
    /\ i' = 0
    /\ outcome' = NoAnswer
    /\ peer_flood_seen' = FALSE
    /\ slept' = 0
    /\ events' = <<>>
    /\ gt_call' = NoCall
    /\ UNCHANGED <<cache, gt_ret, connvars>>

Init ==
    /\ cache = [g \in Groups |-> NoEntry]
    /\ gt_call = NoCall
    /\ gt_ret = [g \in Groups |-> NoType]
    /\ pc = "idle"
    /\ target_group_id = NoGroup
    /\ users_to_skip = {}
    /\ source_members = {}
    /\ target_member_ids = {}
    /\ users_to_add = <<>>
    /\ target_group_type = NoType
    /\ i = 0
    /\ outcome = NoAnswer
    /\ peer_flood_seen = FALSE
    /\ slept = 0
    /\ events = <<>>
    /\ cpc = "new"
    /\ creds = [api_id |-> "api_id", api_hash |-> "api_hash", phone |-> "phone"]
    /\ id = NoUser
    /\ dialogs = <<>>
    /\ last = [op |-> "none", raised |-> FALSE, ret |-> "none", cached |-> {}]

Next ==
    \/ \E skip \in SUBSET Users, ans \in ParticipantAnswers :
          FetchSource(SourceGroup, TargetGroup, skip, ans)
    \/ \E ans \in ParticipantAnswers : FetchTarget(ans)
    \/ \E ans \in EntityAnswers : ComputeUsers(ans)
    \/ \E ans \in EntityAnswers : GetTargetType(ans)
    \/ \E ans \in RequestAnswers : Request(ans)
    \/ FloodSleep
    \/ \E d \in PaceSeconds : PaceSleep(d)
    \/ RunReturns

Spec == Init /\ [][Next]_vars

\* ------------------------------------------------- TelegramConnector
\* What get_me answers in connect: it raises or returns None (me.id then
\* raises), or it returns the account.
MeAnswers ==
    [failed : {TRUE}, id : {NoUser}] \cup [failed : {FALSE}, id : Users]

\* What the one external call of a diagnostic answers: it returns, or it
\* raises one of the errors the except clauses name, or another error.
CallAnswers ==
    {"ok", "FloodWaitError", "PeerFloodError", "UserPrivacyRestrictedError",
     "ChatWriteForbiddenError", "Exception"}

\* What get_dialogs returns: groups, channels and other dialogs; a basic
\* group's entity has no access_hash.
Dialogs ==
    [kind : {"group", "channel"}, id : Groups, access_hash : BOOLEAN]
        \cup {[kind |-> "other", id |-> NoGroup, access_hash |-> FALSE]}
DialogLists == UNION {[1..k -> Dialogs] : k \in 0..MaxDialogs}

Diagnostics ==
    {"is_account_operational", "has_api_rate_limits", "can_access_user",
     "can_write_to_group"}

Returned(op, value) ==
    [op |-> op, raised |-> FALSE, ret |-> value, cached |-> {}]
Raised(op) ==
    [op |-> op, raised |-> TRUE, ret |-> "none", cached |-> {}]
Bool(b) == IF b THEN "True" ELSE "False"

\* connect: client.start raises to the caller; an error of get_me is logged
\* and self.id stays unassigned
connect(start_ok, me) ==
    /\ cpc = "new"
    /\ IF ~start_ok
       THEN /\ last' = Raised("connect")
            /\ UNCHANGED <<cpc, id>>
       ELSE /\ last' = Returned("connect", "None")
            /\ cpc' = "ready"
            /\ id' = IF me.failed THEN id ELSE me.id
    /\ gt_call' = NoCall
    /\ UNCHANGED <<cache, gt_ret, creds, dialogs, runvars>>

\* is_account_operational: get_me inside the try block
is_account_operational(ans) ==
    /\ cpc = "ready"
    /\ last' = Returned("is_account_operational", Bool(ans = "ok"))
    /\ gt_call' = NoCall
    /\ UNCHANGED <<cache, gt_ret, cpc, creds, id, dialogs, runvars>>

\* has_api_rate_limits, lines 85-88 and 106-115: get_dialogs; an error
\* answers False, no dialog answers True, else the loop is entered
has_api_rate_limits(ans, ds) ==
    /\ cpc = "ready"
    /\ IF ans # "ok"
       THEN /\ ds = <<>>
            /\ last' = Returned("has_api_rate_limits", "False")
            /\ UNCHANGED <<cpc, dialogs>>
       ELSE IF ds = <<>>
       THEN /\ last' = Returned("has_api_rate_limits", "True")
            /\ UNCHANGED <<cpc, dialogs>>
       ELSE /\ last' = Returned("has_api_rate_limits", "pending")
            /\ cpc' = "dialogs"
            /\ dialogs' = ds
    /\ gt_call' = NoCall
    /\ UNCHANGED <<cache, gt_ret, creds, id, runvars>>

\* has_api_rate_limits, lines 89-106: one iteration of the loop over the
\* dialogs; any error inside it is caught and answers False
dialog_step(ans) ==
    /\ cpc = "dialogs"
    /\ LET dialog == Head(dialogs)
           called == dialog.kind \in {"group", "channel"}
           r == get_group_type(cache, dialog.id, FALSE, ans)
           error == called /\ (r.raised
                               \/ (dialog.kind = "channel" /\ ~dialog.access_hash))
           written == IF called /\ r.cache # cache THEN {dialog.id} ELSE {}
       IN /\ IF called
             THEN /\ cache' = r.cache
                  /\ gt_call' = call_record(dialog.id, ans, r)
                  /\ gt_ret' = ret_after(dialog.id, r)
             ELSE /\ gt_call' = NoCall
                  /\ UNCHANGED <<cache, gt_ret>>
          /\ IF error
             THEN /\ last' = [last EXCEPT !.ret = "False",
                                          !.cached = @ \cup written]
                  /\ cpc' = "ready"
                  /\ dialogs' = <<>>
             ELSE /\ dialogs' = Tail(dialogs)
                  /\ cpc' = IF Tail(dialogs) = <<>> THEN "ready" ELSE "dialogs"
                  /\ last' = [last EXCEPT
                                !.ret = IF Tail(dialogs) = <<>>
                                        THEN "True" ELSE "pending",
                                !.cached = @ \cup written]
    /\ UNCHANGED <<creds, id, runvars>>

\* mutant: the user looked up becomes the account's identifier
can_access_user_setsid(user_id, ans) ==
    /\ cpc = "ready"
    /\ IF user_id = NoUser /\ id = NoUser
       THEN /\ last' = Raised("can_access_user")
            /\ UNCHANGED id
       ELSE /\ last' = Returned("can_access_user", Bool(ans = "ok"))
            /\ id' = IF user_id # NoUser THEN user_id ELSE id
    /\ gt_call' = NoCall
    /\ UNCHANGED <<cache, gt_ret, cpc, creds, dialogs, runvars>>

\* can_access_user: user_id None reads self.id before the try block
can_access_user(user_id, ans) ==
    /\ cpc = "ready"
    /\ IF user_id = NoUser /\ id = NoUser
       THEN last' = Raised("can_access_user")
       ELSE last' = Returned("can_access_user", Bool(ans = "ok"))
    /\ gt_call' = NoCall
    /\ UNCHANGED <<cache, gt_ret, cpc, creds, id, dialogs, runvars>>

\* can_write_to_group: get_entity inside the try block
can_write_to_group(group_id, ans) ==
    /\ cpc = "ready"
    /\ last' = Returned("can_write_to_group", Bool(ans = "ok"))
    /\ gt_call' = NoCall
    /\ UNCHANGED <<cache, gt_ret, cpc, creds, id, dialogs, runvars>>

\* a call of get_group_type by the user of the object
get_group_type_call(group_id, verbose, ans) ==
    /\ cpc = "ready"
    /\ LET r == get_group_type(cache, group_id, verbose, ans)
       IN /\ cache' = r.cache
          /\ gt_call' = call_record(group_id, ans, r)
          /\ gt_ret' = ret_after(group_id, r)
          /\ last' = [op |-> "get_group_type", raised |-> r.raised,
                      ret |-> r.ret,
                      cached |-> IF r.cache # cache THEN {group_id} ELSE {}]
    /\ UNCHANGED <<cpc, creds, id, dialogs, runvars>>

disconnect ==
    /\ cpc = "ready"
    /\ cpc' = "closed"
    /\ last' = Returned("disconnect", "None")
    /\ gt_call' = NoCall
    /\ UNCHANGED <<cache, gt_ret, creds, id, dialogs, runvars>>

\* a step of one of the four diagnostics: every operation of the connector
\* leaves its name in last
DiagnosticStep == last'.op \in Diagnostics

NextConn ==
    \/ \E ok \in BOOLEAN, me \in MeAnswers : connect(ok, me)
    \/ \E ans \in CallAnswers : is_account_operational(ans)
    \/ \E ans \in CallAnswers, ds \in DialogLists : has_api_rate_limits(ans, ds)
    \/ \E ans \in EntityAnswers : dialog_step(ans)
    \/ \E u \in Users \cup {NoUser}, ans \in CallAnswers : can_access_user(u, ans)
    \/ \E g \in Groups, ans \in CallAnswers : can_write_to_group(g, ans)
    \/ \E g \in Groups, v \in BOOLEAN, ans \in EntityAnswers :
          get_group_type_call(g, v, ans)
    \/ disconnect

SpecConn == Init /\ [][NextConn]_vars


\* ------------------------------------------------------------ claims
IsAdd(e) == e.kind \in AddKinds
AddPositions == {p \in 1..Len(events) : IsAdd(events[p])}
Requested(u) == {p \in AddPositions : events[p].user = u}
ListedUsers == {users_to_add[k] : k \in 1..Len(users_to_add)}
LastEvent == events[Len(events)]

\* C1: every membership-add request of a run is for a member of the source
\* group who is not in the target group as fetched at the start of the run
\* and not in the skip list.
C1_RequestsAreFiltered ==
    \A p \in AddPositions :
        /\ events[p].user \in source_members
        /\ events[p].user \notin target_member_ids
        /\ events[p].user \notin users_to_skip

\* a request was issued in a run where the target and the skip list each
\* exclude a member of the source
C1_Witness ==
    /\ AddPositions # {}
    /\ source_members \cap target_member_ids # {}
    /\ (source_members \ target_member_ids) \cap users_to_skip # {}

\* C2: once a request of the run was answered PeerFloodError, no step of
\* the run issues a further membership-add request.
C2_PeerFloodHalts ==
    [][peer_flood_seen =>
          ~(Len(events') > Len(events) /\ IsAdd(events'[Len(events')]))]_vars

\* the run ended on a PeerFloodError with users of the list left over
C2_Witness ==
    /\ peer_flood_seen
    /\ pc = "done"
    /\ i < Len(users_to_add)

\* C3: a request answered FloodWaitError with s seconds is followed at once
\* by a sleep of exactly s seconds, and after the pacing sleep the loop goes
\* on with the next user of the list, if there is one.
C3_FloodWaitSleepsAndContinues ==
    [][/\ (pc = "request" /\ outcome'.kind = "FloodWaitError")
             => pc' = "flood_sleep"
       /\ pc = "flood_sleep"
             => /\ outcome.kind = "FloodWaitError"
                /\ slept' = outcome.seconds
                /\ events' = Append(events, Event("flood_sleep", NoUser))
                /\ pc' = "pace"
                /\ i' = i
       /\ (pc = "pace" /\ outcome.kind = "FloodWaitError")
             => /\ i' = i + 1
                /\ users_to_add' = users_to_add
                /\ pc' = IF i < Len(users_to_add) THEN "request" ELSE "done"
       /\ (pc = "request" /\ pc' # "request")
             => /\ IsAdd(events'[Len(events')])
                /\ events'[Len(events')].user = users_to_add[i]]_vars

\* after a flood wait and the two sleeps, the request for the next user has
\* been issued
C3_Witness ==
    /\ Len(events) >= 4
    /\ IsAdd(events[Len(events) - 3])
    /\ events[Len(events) - 2].kind = "flood_sleep"
    /\ events[Len(events) - 1].kind = "pace"
    /\ IsAdd(LastEvent)
    /\ LastEvent.user # events[Len(events) - 3].user

\* C4: a run that has ended and met no PeerFloodError has issued exactly
\* one membership-add request for every user of the users-to-add list, and
\* none for anyone else.
C4_OneRequestPerUser ==
    (pc \in {"done", "raised"} /\ ~peer_flood_seen)
        => /\ \A u \in ListedUsers : Cardinality(Requested(u)) = 1
           /\ \A p \in AddPositions : events[p].user \in ListedUsers

\* C5: between any two membership-add requests of a run a pacing sleep has
\* completed, and a pacing sleep lasts between 60 and 180 seconds.
C5_PacedRequests ==
    /\ \A p, q \in AddPositions :
          p < q => \E r \in (p + 1)..(q - 1) : events[r].kind = "pace"
    /\ (events # <<>> /\ LastEvent.kind = "pace")
          => (slept >= PaceMin /\ slept <= PaceMax)

\* two consecutive requests of one run with a completed pacing sleep of
\* 180 seconds between them
C5_Witness ==
    /\ Len(events) >= 3
    /\ IsAdd(events[Len(events) - 2])
    /\ events[Len(events) - 1].kind = "pace"
    /\ IsAdd(LastEvent)
    /\ slept = PaceMax

\* C6: a get_group_type call whose entity lookup fails does not raise and
\* returns "chat".
C6_LookupErrorSwallowed ==
    gt_call.failed => (~gt_call.raised /\ gt_call.ret = Fallback)

\* C7: every get_group_type call for a group identifier returns what the
\* call before it for that identifier returned, and so what the first did.
C7_StableReturn ==
    [][\A g \in Groups : gt_ret[g] # NoType => gt_ret'[g] = gt_ret[g]]_vars

\* C7, amended: once a call for an identifier has returned "supergroup",
\* "channel" or "basic_group", every later call for it returns the same.
C7_StableOnceClassified ==
    [][\A g \in Groups :
          gt_ret[g] \in CachedTypes
             => /\ gt_ret'[g] = gt_ret[g]
                /\ (gt_call'.group = g /\ gt_call' # gt_call)
                      => (~gt_call'.raised /\ gt_call'.ret = gt_ret[g])]_vars

\* a repeated call was answered with the classification returned before
C7_Witness ==
    /\ gt_call.group \in Groups
    /\ ~gt_call.lookup
    /\ gt_call.ret \in CachedTypes
    /\ gt_ret[gt_call.group] = gt_call.ret

\* C8: a cache entry, once written, keeps its value, and get_group_type
\* makes no entity lookup for an identifier that has an entry.
C8_CacheOnlyGrows ==
    [][\A g \in Groups :
          cache[g] # NoEntry
             => /\ cache'[g] = cache[g]
                /\ ~(gt_call'.group = g /\ gt_call'.lookup)]_vars

\* both identifiers have an entry and a call was served from the cache
C8_Witness ==
    /\ \A g \in Groups : cache[g] # NoEntry
    /\ gt_call.group \in Groups
    /\ ~gt_call.lookup
    /\ ~gt_call.raised

\* C9: each of the four diagnostics, called after connect has returned,
\* returns True or False and raises nothing.
C9_DiagnosticsReturnBool ==
    (last.op \in Diagnostics /\ cpc # "dialogs")
        => (~last.raised /\ last.ret \in {"True", "False"})

\* C10: a step of a diagnostic leaves the credentials, the account
\* identifier and the group-type cache unchanged.
C10_DiagnosticsReadOnly ==
    [][DiagnosticStep => UNCHANGED <<creds, id, cache>>]_vars

\* C10, amended: a step of a diagnostic leaves the credentials and the
\* account identifier unchanged; only has_api_rate_limits changes the
\* cache, and only by adding entries for identifiers that had none.
C10_DiagnosticsOnlyFillCache ==
    [][DiagnosticStep
          => /\ UNCHANGED <<creds, id>>
             /\ \A g \in Groups : cache[g] # NoEntry => cache'[g] = cache[g]
             /\ cache' # cache => last'.op = "has_api_rate_limits"]_vars

\* has_api_rate_limits returned True and wrote a cache entry
C10_Witness ==
    /\ last.op = "has_api_rate_limits"
    /\ last.ret = "True"
    /\ last.cached # {}

=============================================================================
